---- MODULE Spec2Model ----
(***************************************************************************)
(* Model of the broker ingress decouple sink of knative-gcp:               *)
(*   pkg/broker/config/cache.go          CachedTargets (atomic snapshot)   *)
(*   pkg/broker/ingress/multi_topic_decouple_sink.go  multiTopicDecoupleSink*)
(* Each sender is a goroutine running Send; every statement that reads or  *)
(* writes shared state (the atomic.Value, the topics map, topicsMut, a     *)
(* pubsub.Topic) is one step.                                              *)
(***************************************************************************)
EXTENDS Integers, Sequences, FiniteSets, TLC

\* ------------------------------------------------------------------ bounds
MaxSends == 3
MaxStores == 2
NumProcs == 2

\* The bounds of the runs checked under fair scheduling.
FairSends == 2
FairStores == 1

Procs == 1..NumProcs

\* ------------------------------------------------------------ data model
Brokers == {"b1", "b2"}
TopicIDs == {"t1", "t2"}
\* The events callers send, and the event types a filter may name.
Events == {"eA"}
EventTypes == {"eA", "eB"}
States == {"UNKNOWN", "CREATING", "READY", "FAILED"}

\* config.State_READY
State_READY == "READY"

\* The zero value of atomic.Value: nothing was ever stored.
Unset == [kind |-> "unset"]
\* A nil *TargetsConfig (Store(nil) stores a typed nil pointer).
NilConfig == [kind |-> "nil"]
\* A *TargetsConfig with the given Brokers map.
Config(bs) == [kind |-> "cfg", Brokers |-> bs]
\* A nil *DecoupleQueue.
NilQueue == [present |-> FALSE, Topic |-> "", State |-> "UNKNOWN"]
\* A nil *Broker.
NilBroker == [DecoupleQueue |-> NilQueue, Targets |-> [n \in {} |-> {}]]

\* Results of Send.
ErrNotFound == "ErrNotFound"
ErrIncomplete == "ErrIncomplete"
ErrNotReady == "ErrNotReady"
ErrEncode == "ErrEncode"
ErrPublish == "ErrPublish"
ErrCancelled == "ErrCancelled"
ErrTopicStopped == "ErrTopicStopped"
Fault == "panic"
Nil == "nil"
NoResult == "none"

\* A PublishResult: none yet, not ready yet, or ready with nil or an error.
NoFuture == "nofuture"
Pending == "pending"

\* A Target is modelled by its FilterAttributes: the set of events that pass
\* eventFilterFunc for it.  Targets of a broker: target name -> filter.
NoTargets == [n \in {} |-> {}]
TargetsOf(f) == [n \in {"tr"} |-> f]

\* A DecoupleQueue value.
Queue(t, s) == [present |-> TRUE, Topic |-> t, State |-> s]

\* A Broker value.
Broker(q, ts) == [DecoupleQueue |-> q, Targets |-> ts]

\* The broker values the control loop publishes under each broker key: for b1
\* every shape getTopicIDForBroker tells apart, ready with either topic id, with
\* a target that passes the event or one that does not; for b2 a ready broker
\* that shares b1's topic id and has a target of its own that passes the event.
BrokerValues(k) ==
    IF k = "b1"
    THEN { Broker(NilQueue, NoTargets),
           Broker(Queue("", "READY"), NoTargets),
           Broker(Queue("", "CREATING"), NoTargets),
           Broker(Queue("t1", "UNKNOWN"), NoTargets),
           Broker(Queue("t1", "CREATING"), NoTargets),
           Broker(Queue("t1", "FAILED"), NoTargets),
           Broker(Queue("t1", "READY"), TargetsOf({"eA"})),
           Broker(Queue("t2", "READY"), TargetsOf({"eB"})) }
    ELSE { Broker(Queue("t1", "READY"), TargetsOf({"eA"})) }

\* A TargetsConfig: the Brokers map, keyed by BrokerKey.PersistenceString().
TargetsConfigs ==
    { Config(bs) : bs \in UNION { { f \in [ks -> UNION { BrokerValues(k) : k \in ks }] :
                                      \A k \in ks : f[k] \in BrokerValues(k) } :
                                  ks \in SUBSET Brokers } }

\* The snapshots the control loop publishes (the bounded inputs of Store).
StoredConfigs == TargetsConfigs \cup {NilConfig}

\* -------------------------------------------------------------- state
VARIABLES
    Value,                  \* CachedTargets.Value: Unset, or the stored *TargetsConfig
    topics,                 \* multiTopicDecoupleSink.topics: broker -> handle, 0 = no entry
    handles,                \* every pubsub.Topic created so far: [broker, id, stops]
    writer,                 \* topicsMut: the goroutine holding the write lock, 0 = none
    readers,                \* topicsMut: the goroutines holding the read lock
    enableEventFiltering,   \* multiTopicDecoupleSink.enableEventFiltering
    pc,                     \* each sender's position in Send
    broker,                 \* Send's argument broker
    event,                  \* Send's argument event
    topicID,                \* the local topicID of getTopicForBroker / updateTopicForBroker
    topic,                  \* the local topic (a handle), 0 = nil
    result,                 \* what Send returned
    npub,                   \* Publish calls issued by the current Send
    touched,                \* whether the current Send changed topics or a handle
    viaLock,                \* whether the current Send entered updateTopicForBroker
    staleRead,              \* whether the handle the Send last took from the map was stopped then
    future,                 \* the PublishResult of the Send's Publish call
    ctxDone,                \* whether the caller's context was cancelled during Get(ctx)
    cfgHist,                \* history: the successive resolvable topic ids of each broker
    during,                 \* history: the ids the Send's broker resolved to in the snapshots
                            \* current at some instant of the call
    lastStored,             \* history: the argument of the latest Store
    nsends,                 \* Send calls started
    nstores                 \* Store calls made

vars == << Value, topics, handles, writer, readers, enableEventFiltering, pc, broker,
           event, topicID, topic, result, npub, touched, viaLock, staleRead, future,
           ctxDone, cfgHist, during, lastStored, nsends, nstores >>

procVars == << pc, broker, event, topicID, topic, result, npub, touched, viaLock, staleRead,
              future, ctxDone >>
awaitVars == << future, ctxDone >>
lockVars == << writer, readers >>
registryVars == << topics, handles >>
storeVars == << Value, cfgHist, lastStored, nstores >>

\* ------------------------------------------------- Configuration Snapshot Store
\* CachedTargets.Load: [fault, val].  The unchecked type assertion faults on the
\* nil interface that an atomic.Value never stored to returns.
Load(v) ==
    IF v.kind = "unset" THEN [fault |-> TRUE, val |-> NilConfig]
    ELSE [fault |-> FALSE, val |-> v]

\* CachedTargets.GetBrokerByKey: [fault, ok, b].
GetBrokerByKey(v, key) ==
    LET l == Load(v) IN
    IF l.fault THEN [fault |-> TRUE, ok |-> FALSE, b |-> NilBroker]
    ELSE IF l.val.kind = "nil" THEN [fault |-> FALSE, ok |-> FALSE, b |-> NilBroker]
    ELSE IF key \in DOMAIN l.val.Brokers
         THEN [fault |-> FALSE, ok |-> TRUE, b |-> l.val.Brokers[key]]
    ELSE [fault |-> FALSE, ok |-> FALSE, b |-> NilBroker]

\* Variant of RangeAllTargets that visits the targets of broker "b1" alone.
RangeAllTargets_OneBroker(v) ==
    LET l == Load(v) IN
    IF l.fault \/ l.val.kind = "nil" THEN {}
    ELSE UNION { { << k, n >> : n \in DOMAIN l.val.Brokers[k].Targets } :
                 k \in DOMAIN l.val.Brokers \cap {"b1"} }

\* CachedTargets.RangeAllTargets: the targets the visitor is offered, as
\* << broker key, target name >>, when it never asks to stop.
RangeAllTargets(v) ==
    LET l == Load(v) IN
    IF l.fault \/ l.val.kind = "nil" THEN {}
    ELSE UNION { { << k, n >> : n \in DOMAIN l.val.Brokers[k].Targets } :
                 k \in DOMAIN l.val.Brokers }

\* Mutant of eventFilterFunc: every target passes every event.
eventFilterFunc_PassAll(filterAttributes, e) == TRUE

\* eventFilterFunc (filter.PassFilter): whether the event passes the attributes.
eventFilterFunc(filterAttributes, e) == e \in filterAttributes

\* ---------------------------------------------------------- Decouple Router
\* Mutant of getTopicIDForBroker: the found flag of GetBrokerByKey is ignored,
\* so an unknown broker is taken for one without a decouple queue.
getTopicIDForBroker_IgnoreOk(v, key) ==
    LET r == GetBrokerByKey(v, key) IN
    IF r.fault THEN [id |-> "", err |-> Fault]
    ELSE IF ~r.b.DecoupleQueue.present \/ r.b.DecoupleQueue.Topic = ""
         THEN [id |-> "", err |-> ErrIncomplete]
    ELSE IF r.b.DecoupleQueue.State # State_READY
         THEN [id |-> "", err |-> ErrNotReady]
    ELSE [id |-> r.b.DecoupleQueue.Topic, err |-> Nil]

\* Mutant of getTopicIDForBroker: the queue's state is tested before its topic.
getTopicIDForBroker_StateFirst(v, key) ==
    LET r == GetBrokerByKey(v, key) IN
    IF r.fault THEN [id |-> "", err |-> Fault]
    ELSE IF ~r.ok THEN [id |-> "", err |-> ErrNotFound]
    ELSE IF ~r.b.DecoupleQueue.present THEN [id |-> "", err |-> ErrIncomplete]
    ELSE IF r.b.DecoupleQueue.State # State_READY
         THEN [id |-> "", err |-> ErrNotReady]
    ELSE IF r.b.DecoupleQueue.Topic = "" THEN [id |-> "", err |-> ErrIncomplete]
    ELSE [id |-> r.b.DecoupleQueue.Topic, err |-> Nil]

\* Mutant of getTopicIDForBroker: only a queue still being created is not ready.
getTopicIDForBroker_OnlyCreating(v, key) ==
    LET r == GetBrokerByKey(v, key) IN
    IF r.fault THEN [id |-> "", err |-> Fault]
    ELSE IF ~r.ok THEN [id |-> "", err |-> ErrNotFound]
    ELSE IF ~r.b.DecoupleQueue.present \/ r.b.DecoupleQueue.Topic = ""
         THEN [id |-> "", err |-> ErrIncomplete]
    ELSE IF r.b.DecoupleQueue.State = "CREATING"
         THEN [id |-> "", err |-> ErrNotReady]
    ELSE [id |-> r.b.DecoupleQueue.Topic, err |-> Nil]

\* getTopicIDForBroker: [id, err]; err = Fault when the lookup faults.
getTopicIDForBroker(v, key) ==
    LET r == GetBrokerByKey(v, key) IN
    IF r.fault THEN [id |-> "", err |-> Fault]
    ELSE IF ~r.ok THEN [id |-> "", err |-> ErrNotFound]
    ELSE IF ~r.b.DecoupleQueue.present \/ r.b.DecoupleQueue.Topic = ""
         THEN [id |-> "", err |-> ErrIncomplete]
    ELSE IF r.b.DecoupleQueue.State # State_READY
         THEN [id |-> "", err |-> ErrNotReady]
    ELSE [id |-> r.b.DecoupleQueue.Topic, err |-> Nil]

\* hasTrigger: some target of some broker of the snapshot passes the event.
hasTrigger(v, e) ==
    \E kn \in RangeAllTargets(v) :
        eventFilterFunc(v.Brokers[kn[1]].Targets[kn[2]], e)

\* pubsub.Topic.ID() of a handle.
ID(h) == handles[h].id

\* Whether Stop was called on a handle.
Stopped(h) == handles[h].stops > 0

\* History: the topic id a Send would resolve for the broker under snapshot s,
\* "" when the broker is not resolvable there.
Resolvable(s, key) ==
    IF s.kind = "cfg" /\ key \in DOMAIN s.Brokers
       /\ s.Brokers[key].DecoupleQueue.present
       /\ s.Brokers[key].DecoupleQueue.State = "READY"
    THEN s.Brokers[key].DecoupleQueue.Topic
    ELSE ""

\* History: cfgHist after snapshot s is published.
NextHist(h, s) ==
    [b \in Brokers |->
        LET t == Resolvable(s, b) IN
        IF t # "" /\ (h[b] = << >> \/ h[b][Len(h[b])] # t) THEN Append(h[b], t) ELSE h[b]]

\* ------------------------------------------------------------ initial state
\* NewMultiTopicDecoupleSink with a CachedTargets nothing was stored to.
Init ==
    /\ Value = Unset
    /\ topics = [b \in Brokers |-> 0]
    /\ handles = << >>
    /\ writer = 0
    /\ readers = {}
    /\ enableEventFiltering \in BOOLEAN
    /\ pc = [p \in Procs |-> "idle"]
    /\ broker = [p \in Procs |-> "b1"]
    /\ event = [p \in Procs |-> "eA"]
    /\ topicID = [p \in Procs |-> ""]
    /\ topic = [p \in Procs |-> 0]
    /\ result = [p \in Procs |-> NoResult]
    /\ npub = [p \in Procs |-> 0]
    /\ touched = [p \in Procs |-> FALSE]
    /\ viaLock = [p \in Procs |-> FALSE]
    /\ staleRead = [p \in Procs |-> FALSE]
    /\ future = [p \in Procs |-> NoFuture]
    /\ ctxDone = [p \in Procs |-> FALSE]
    /\ cfgHist = [b \in Brokers |-> << >>]
    /\ during = [p \in Procs |-> {}]
    /\ lastStored = Unset
    /\ nsends = 0
    /\ nstores = 0

\* ------------------------------------------------------------------ Store
\* Mutant of StoreValue: the new snapshot's brokers are written over the old
\* snapshot's, so brokers the new snapshot dropped stay visible.
StoreValue_Merge(old, t) ==
    IF old.kind = "cfg" /\ t.kind = "cfg"
    THEN Config([k \in DOMAIN old.Brokers \cup DOMAIN t.Brokers |->
                    IF k \in DOMAIN t.Brokers THEN t.Brokers[k] ELSE old.Brokers[k]])
    ELSE t

\* CachedTargets.Store: the atomic.Value takes the new pointer in one step.
StoreValue(old, t) == t

Store(t) ==
    /\ nstores < MaxStores
    /\ Value' = StoreValue(Value, t)
    /\ lastStored' = t
    /\ cfgHist' = NextHist(cfgHist, t)
    /\ during' = [p \in Procs |->
                    IF pc[p] \in {"idle", "done"} THEN during[p]
                    ELSE during[p] \cup ({Resolvable(t, broker[p])} \ {""})]
    /\ nstores' = nstores + 1
    /\ UNCHANGED << topics, handles, writer, readers, enableEventFiltering, procVars, nsends >>

\* ------------------------------------------------------------------- Send
\* A caller enters Send(ctx, broker, event).
SendCall(p, b, e) ==
    /\ pc[p] = "idle"
    /\ nsends < MaxSends
    /\ nsends' = nsends + 1
    /\ pc' = [pc EXCEPT ![p] = "getTopicID"]
    /\ broker' = [broker EXCEPT ![p] = b]
    /\ event' = [event EXCEPT ![p] = e]
    /\ during' = [during EXCEPT ![p] = {Resolvable(Value, b)} \ {""}]
    /\ UNCHANGED << topicID, topic, result, npub, touched, viaLock, staleRead >>
    /\ UNCHANGED << storeVars, registryVars, lockVars, enableEventFiltering >>
    /\ UNCHANGED awaitVars

\* Send returns err right after a failed getTopicForBroker.
ReturnErr(p, err) ==
    /\ pc' = [pc EXCEPT ![p] = "done"]
    /\ result' = [result EXCEPT ![p] = err]

\* getTopicForBroker, line 138: the first getTopicIDForBroker, no lock held.
GetTopicID(p) ==
    /\ pc[p] = "getTopicID"
    /\ LET r == getTopicIDForBroker(Value, broker[p]) IN
       IF r.err # Nil
       THEN /\ ReturnErr(p, r.err)
            /\ UNCHANGED topicID
       ELSE /\ pc' = [pc EXCEPT ![p] = "RLock"]
            /\ topicID' = [topicID EXCEPT ![p] = r.id]
            /\ UNCHANGED result
    /\ UNCHANGED << broker, event, topic, npub, touched, viaLock, staleRead >>
    /\ UNCHANGED << storeVars, registryVars, lockVars, enableEventFiltering, nsends >>
    /\ UNCHANGED awaitVars
    /\ UNCHANGED during

\* Mutant of CanRLock: topicsMut is a plain mutex, a reader excludes readers.
CanRLock_Exclusive(p) == writer = 0 /\ readers = {}

\* Mutant of CanRLock: getExistingTopic reads the map without the read lock.
CanRLock_NoLock(p) == TRUE

\* getExistingTopic: topicsMut.RLock() waits while a writer holds the lock.
CanRLock(p) == writer = 0

RLock(p) ==
    /\ pc[p] = "RLock"
    /\ CanRLock(p)
    /\ readers' = readers \cup {p}
    /\ pc' = [pc EXCEPT ![p] = "getExistingTopic"]
    /\ UNCHANGED << broker, event, topicID, topic, result, npub, touched, viaLock, staleRead >>
    /\ UNCHANGED << storeVars, registryVars, writer, enableEventFiltering, nsends >>
    /\ UNCHANGED awaitVars
    /\ UNCHANGED during

\* Variant of GetExistingTopic that takes any handle found in the map, without
\* comparing its id with the configured one.
GetExistingTopic_NoCompare(p) ==
    /\ pc[p] = "getExistingTopic"
    /\ readers' = readers \ {p}
    /\ LET t == topics[broker[p]] IN
       /\ topic' = [topic EXCEPT ![p] = t]
       /\ staleRead' = [staleRead EXCEPT ![p] = (t # 0 /\ Stopped(t))]
       /\ pc' = [pc EXCEPT ![p] = IF t # 0 THEN "filter" ELSE "Lock"]
    /\ UNCHANGED << broker, event, topicID, result, npub, touched, viaLock >>
    /\ UNCHANGED << storeVars, registryVars, writer, enableEventFiltering, nsends >>
    /\ UNCHANGED awaitVars
    /\ UNCHANGED during

\* getExistingTopic reads the map and unlocks; getTopicForBroker, lines 143-151,
\* then compares the handle's id with the topicID read at line 138.
GetExistingTopic(p) ==
    /\ pc[p] = "getExistingTopic"
    /\ readers' = readers \ {p}
    /\ LET t == topics[broker[p]] IN
       /\ topic' = [topic EXCEPT ![p] = t]
       /\ staleRead' = [staleRead EXCEPT ![p] = (t # 0 /\ Stopped(t))]
       /\ pc' = [pc EXCEPT ![p] =
                    IF t # 0 /\ ID(t) = topicID[p] THEN "filter" ELSE "Lock"]
    /\ UNCHANGED << broker, event, topicID, result, npub, touched, viaLock >>
    /\ UNCHANGED << storeVars, registryVars, writer, enableEventFiltering, nsends >>
    /\ UNCHANGED awaitVars
    /\ UNCHANGED during

\* updateTopicForBroker: topicsMut.Lock() waits for the writer and every reader.
CanLock(p) == writer = 0 /\ readers = {}

Lock(p) ==
    /\ pc[p] = "Lock"
    /\ CanLock(p)
    /\ writer' = p
    /\ viaLock' = [viaLock EXCEPT ![p] = TRUE]
    /\ pc' = [pc EXCEPT ![p] = "recheck"]
    /\ UNCHANGED << broker, event, topicID, topic, result, npub, touched, staleRead >>
    /\ UNCHANGED << storeVars, registryVars, readers, enableEventFiltering, nsends >>
    /\ UNCHANGED awaitVars
    /\ UNCHANGED during

\* Mutant of Recheck: on an error the broker's cached handle is stopped and its
\* entry removed before the error is returned.
Recheck_Cleanup(p) ==
    /\ pc[p] = "recheck"
    /\ LET r == getTopicIDForBroker(Value, broker[p])
           t == topics[broker[p]] IN
       IF r.err # Nil
       THEN /\ ReturnErr(p, r.err)
            /\ writer' = 0
            /\ IF t # 0
               THEN /\ handles' = [handles EXCEPT ![t].stops = @ + 1]
                    /\ topics' = [topics EXCEPT ![broker[p]] = 0]
                    /\ touched' = [touched EXCEPT ![p] = TRUE]
               ELSE UNCHANGED << handles, topics, touched >>
            /\ UNCHANGED topicID
       ELSE /\ pc' = [pc EXCEPT ![p] = "update"]
            /\ topicID' = [topicID EXCEPT ![p] = r.id]
            /\ UNCHANGED << result, writer, handles, topics, touched >>
    /\ UNCHANGED << broker, event, topic, npub, viaLock, staleRead >>
    /\ UNCHANGED << storeVars, readers, enableEventFiltering, nsends >>
    /\ UNCHANGED awaitVars
    /\ UNCHANGED during

\* updateTopicForBroker, lines 158-161: the topic id is fetched again under the
\* lock; on an error the deferred Unlock runs and Send returns the error.
Recheck(p) ==
    /\ pc[p] = "recheck"
    /\ LET r == getTopicIDForBroker(Value, broker[p]) IN
       IF r.err # Nil
       THEN /\ ReturnErr(p, r.err)
            /\ writer' = 0
            /\ UNCHANGED topicID
       ELSE /\ pc' = [pc EXCEPT ![p] = "update"]
            /\ topicID' = [topicID EXCEPT ![p] = r.id]
            /\ UNCHANGED << result, writer >>
    /\ UNCHANGED << broker, event, topic, npub, touched, viaLock, staleRead >>
    /\ UNCHANGED << storeVars, registryVars, readers, enableEventFiltering, nsends >>
    /\ UNCHANGED awaitVars
    /\ UNCHANGED during

\* Mutant of Stop: the stale handle is never stopped.
Stop_Nothing(hs, h) == hs

\* pubsub.Topic.Stop on a handle.
Stop(hs, h) == [hs EXCEPT ![h].stops = @ + 1]

\* Mutant of Update: the cached handle is not compared again under the lock; a
\* cached handle is always stopped and replaced.
Update_NoDoubleCheck(p) ==
    /\ pc[p] = "update"
    /\ LET t == topics[broker[p]] IN
       /\ IF t # 0
          THEN /\ handles' = [handles EXCEPT ![t].stops = @ + 1]
               /\ touched' = [touched EXCEPT ![p] = TRUE]
          ELSE UNCHANGED << handles, touched >>
       /\ pc' = [pc EXCEPT ![p] = "create"]
       /\ UNCHANGED << topic, writer, staleRead >>
    /\ UNCHANGED << broker, event, topicID, result, npub, viaLock >>
    /\ UNCHANGED << storeVars, topics, readers, enableEventFiltering, nsends >>
    /\ UNCHANGED awaitVars
    /\ UNCHANGED during

\* updateTopicForBroker, lines 163-170: a cached handle with the fetched id is
\* returned (the deferred Unlock runs); a cached handle with another id is stopped.
Update(p) ==
    /\ pc[p] = "update"
    /\ LET t == topics[broker[p]] IN
       IF t # 0 /\ ID(t) = topicID[p]
       THEN /\ topic' = [topic EXCEPT ![p] = t]
            /\ staleRead' = [staleRead EXCEPT ![p] = Stopped(t)]
            /\ writer' = 0
            /\ pc' = [pc EXCEPT ![p] = "filter"]
            /\ UNCHANGED << handles, touched >>
       ELSE /\ IF t # 0
               THEN /\ handles' = Stop(handles, t)
                    /\ touched' = [touched EXCEPT ![p] = TRUE]
               ELSE UNCHANGED << handles, touched >>
            /\ pc' = [pc EXCEPT ![p] = "create"]
            /\ UNCHANGED << topic, writer, staleRead >>
    /\ UNCHANGED << broker, event, topicID, result, npub, viaLock >>
    /\ UNCHANGED << storeVars, topics, readers, enableEventFiltering, nsends >>
    /\ UNCHANGED awaitVars
    /\ UNCHANGED during

\* pubsub.Client.Topic: a new handle bound to the id, for the broker's entry.
NewTopic(b, id) == [broker |-> b, id |-> id, stops |-> 0]

\* Mutant of Create: the write lock is kept after the handle is returned (no
\* deferred Unlock), so it is held through the filter, the encoding and the wait.
Create_NoUnlock(p) ==
    /\ pc[p] = "create"
    /\ handles' = Append(handles, NewTopic(broker[p], topicID[p]))
    /\ topics' = [topics EXCEPT ![broker[p]] = Len(handles) + 1]
    /\ topic' = [topic EXCEPT ![p] = Len(handles) + 1]
    /\ touched' = [touched EXCEPT ![p] = TRUE]
    /\ staleRead' = [staleRead EXCEPT ![p] = FALSE]
    /\ pc' = [pc EXCEPT ![p] = "filter"]
    /\ UNCHANGED << broker, event, topicID, result, npub, viaLock >>
    /\ UNCHANGED << storeVars, lockVars, enableEventFiltering, nsends >>
    /\ UNCHANGED awaitVars
    /\ UNCHANGED during

\* Mutant of Create: handles are shared by topic id; a live handle bound to the
\* id, whichever broker it was created for, is stored instead of a new one.
Create_ShareByID(p) ==
    /\ pc[p] = "create"
    /\ LET same == { h \in 1..Len(handles) :
                        handles[h].id = topicID[p] /\ handles[h].stops = 0 } IN
       IF same # {}
       THEN /\ handles' = handles
            /\ topics' = [topics EXCEPT ![broker[p]] = CHOOSE h \in same : TRUE]
            /\ topic' = [topic EXCEPT ![p] = CHOOSE h \in same : TRUE]
       ELSE /\ handles' = Append(handles, [broker |-> broker[p], id |-> topicID[p], stops |-> 0])
            /\ topics' = [topics EXCEPT ![broker[p]] = Len(handles) + 1]
            /\ topic' = [topic EXCEPT ![p] = Len(handles) + 1]
    /\ touched' = [touched EXCEPT ![p] = TRUE]
    /\ staleRead' = [staleRead EXCEPT ![p] = FALSE]
    /\ writer' = 0
    /\ pc' = [pc EXCEPT ![p] = "filter"]
    /\ UNCHANGED << broker, event, topicID, result, npub, viaLock >>
    /\ UNCHANGED << storeVars, readers, enableEventFiltering, nsends >>
    /\ UNCHANGED awaitVars
    /\ UNCHANGED during

\* updateTopicForBroker, lines 171-173: the new handle is created, stored in the
\* map and returned; the deferred Unlock runs.
Create(p) ==
    /\ pc[p] = "create"
    /\ handles' = Append(handles, NewTopic(broker[p], topicID[p]))
    /\ topics' = [topics EXCEPT ![broker[p]] = Len(handles) + 1]
    /\ topic' = [topic EXCEPT ![p] = Len(handles) + 1]
    /\ touched' = [touched EXCEPT ![p] = TRUE]
    /\ staleRead' = [staleRead EXCEPT ![p] = FALSE]
    /\ writer' = 0
    /\ pc' = [pc EXCEPT ![p] = "filter"]
    /\ UNCHANGED << broker, event, topicID, result, npub, viaLock >>
    /\ UNCHANGED << storeVars, readers, enableEventFiltering, nsends >>
    /\ UNCHANGED awaitVars
    /\ UNCHANGED during

\* Mutant of Dropped: the enableEventFiltering flag is not consulted.
Dropped_IgnoreFlag(enabled, v, e) == ~hasTrigger(v, e)

\* Send, lines 91-94: with filtering enabled an event no target is interested
\* in is dropped and Send returns nil.
Dropped(enabled, v, e) == enabled /\ ~hasTrigger(v, e)

Filter(p) ==
    /\ pc[p] = "filter"
    /\ IF Dropped(enableEventFiltering, Value, event[p])
       THEN /\ pc' = [pc EXCEPT ![p] = "done"]
            /\ result' = [result EXCEPT ![p] = Nil]
       ELSE /\ pc' = [pc EXCEPT ![p] = "encode"]
            /\ UNCHANGED result
    /\ UNCHANGED << broker, event, topicID, topic, npub, touched, viaLock, staleRead >>
    /\ UNCHANGED << storeVars, registryVars, lockVars, enableEventFiltering, nsends >>
    /\ UNCHANGED awaitVars
    /\ UNCHANGED during

\* Send, lines 96-100: WritePubSubMessage encodes the event, or fails and Send
\* returns its error.
Encode(p) ==
    /\ pc[p] = "encode"
    /\ \E encoded \in BOOLEAN :
        IF encoded
        THEN /\ pc' = [pc EXCEPT ![p] = "publish"]
             /\ UNCHANGED result
        ELSE /\ pc' = [pc EXCEPT ![p] = "done"]
             /\ result' = [result EXCEPT ![p] = ErrEncode]
    /\ UNCHANGED << broker, event, topicID, topic, npub, touched, viaLock, staleRead >>
    /\ UNCHANGED << storeVars, registryVars, lockVars, enableEventFiltering, nsends >>
    /\ UNCHANGED awaitVars
    /\ UNCHANGED during

\* pubsub.Topic.Publish: the PublishResult of a message handed to handle h; a
\* handle Stop was called on answers at once with its stopped error.
PublishResult(hs, h) == IF hs[h].stops > 0 THEN ErrTopicStopped ELSE Pending

\* Send, line 102: topic.Publish(ctx, msg) hands the message to the handle.
Publish(p) ==
    /\ pc[p] = "publish"
    /\ npub' = [npub EXCEPT ![p] = @ + 1]
    /\ future' = [future EXCEPT ![p] = PublishResult(handles, topic[p])]
    /\ pc' = [pc EXCEPT ![p] = "await"]
    /\ UNCHANGED << broker, event, topicID, topic, result, touched, viaLock, staleRead, ctxDone >>
    /\ UNCHANGED << storeVars, registryVars, lockVars, enableEventFiltering, nsends >>
    /\ UNCHANGED during

\* The queue service answers a publish: the acknowledgement or a transport error.
PublishOutcomes == {Nil, ErrPublish}

Deliver(p) ==
    /\ pc[p] = "await"
    /\ future[p] = Pending
    /\ \E outcome \in PublishOutcomes :
        future' = [future EXCEPT ![p] = outcome]
    /\ UNCHANGED << pc, broker, event, topicID, topic, result, npub, touched, viaLock,
                    staleRead, ctxDone >>
    /\ UNCHANGED << storeVars, registryVars, lockVars, enableEventFiltering, nsends >>
    /\ UNCHANGED during

\* The caller cancels Send's context (or its deadline passes) during Get(ctx).
Cancel(p) ==
    /\ pc[p] = "await"
    /\ ~ctxDone[p]
    /\ ctxDone' = [ctxDone EXCEPT ![p] = TRUE]
    /\ UNCHANGED << pc, broker, event, topicID, topic, result, npub, touched, viaLock,
                    staleRead, future >>
    /\ UNCHANGED << storeVars, registryVars, lockVars, enableEventFiltering, nsends >>
    /\ UNCHANGED during

\* Variant of GetReturns that waits for the result whatever the context does.
GetReturns_IgnoreCtx(f, done) == IF f # Pending THEN {f} ELSE {}

\* PublishResult.Get(ctx): the errors Get can return now; it returns the ready
\* result, or the context's error once the context is done, and waits otherwise.
GetReturns(f, done) ==
    (IF f # Pending THEN {f} ELSE {}) \cup (IF done THEN {ErrCancelled} ELSE {})

\* Variant of Await that publishes again after a transport error.
Await_Retry(p) ==
    /\ pc[p] = "await"
    /\ \E err \in GetReturns(future[p], ctxDone[p]) :
        /\ result' = [result EXCEPT ![p] = err]
        /\ pc' = [pc EXCEPT ![p] = IF err = ErrPublish THEN "publish" ELSE "done"]
    /\ future' = [future EXCEPT ![p] = NoFuture]
    /\ ctxDone' = [ctxDone EXCEPT ![p] = FALSE]
    /\ UNCHANGED << broker, event, topicID, topic, npub, touched, viaLock, staleRead >>
    /\ UNCHANGED << storeVars, registryVars, lockVars, enableEventFiltering, nsends >>
    /\ UNCHANGED during

\* Send, lines 102-103: Get(ctx) returns and Send returns its error as it is.
Await(p) ==
    /\ pc[p] = "await"
    /\ \E err \in GetReturns(future[p], ctxDone[p]) :
        result' = [result EXCEPT ![p] = err]
    /\ pc' = [pc EXCEPT ![p] = "done"]
    /\ future' = [future EXCEPT ![p] = NoFuture]
    /\ ctxDone' = [ctxDone EXCEPT ![p] = FALSE]
    /\ UNCHANGED << broker, event, topicID, topic, npub, touched, viaLock, staleRead >>
    /\ UNCHANGED << storeVars, registryVars, lockVars, enableEventFiltering, nsends >>
    /\ UNCHANGED during

\* The caller takes Send's result; the goroutine is free for the next event.
Return(p) ==
    /\ pc[p] = "done"
    /\ pc' = [pc EXCEPT ![p] = "idle"]
    /\ broker' = [broker EXCEPT ![p] = "b1"]
    /\ event' = [event EXCEPT ![p] = "eA"]
    /\ topicID' = [topicID EXCEPT ![p] = ""]
    /\ topic' = [topic EXCEPT ![p] = 0]
    /\ result' = [result EXCEPT ![p] = NoResult]
    /\ npub' = [npub EXCEPT ![p] = 0]
    /\ touched' = [touched EXCEPT ![p] = FALSE]
    /\ viaLock' = [viaLock EXCEPT ![p] = FALSE]
    /\ staleRead' = [staleRead EXCEPT ![p] = FALSE]
    /\ during' = [during EXCEPT ![p] = {}]
    /\ UNCHANGED awaitVars
    /\ UNCHANGED << storeVars, registryVars, lockVars, enableEventFiltering, nsends >>

\* A step of Send by sender p, after the call and before the return to the caller.
SendStep(p) ==
    \/ GetTopicID(p) \/ RLock(p) \/ GetExistingTopic(p) \/ Lock(p) \/ Recheck(p)
    \/ Update(p) \/ Create(p) \/ Filter(p) \/ Encode(p) \/ Publish(p) \/ Await(p)

\* ------------------------------------------------------------ specification
Next ==
    \/ \E t \in StoredConfigs : Store(t)
    \/ \E p \in Procs, b \in Brokers, e \in Events : SendCall(p, b, e)
    \/ \E p \in Procs : GetTopicID(p)
    \/ \E p \in Procs : RLock(p)
    \/ \E p \in Procs : GetExistingTopic(p)
    \/ \E p \in Procs : Lock(p)
    \/ \E p \in Procs : Recheck(p)
    \/ \E p \in Procs : Update(p)
    \/ \E p \in Procs : Create(p)
    \/ \E p \in Procs : Filter(p)
    \/ \E p \in Procs : Encode(p)
    \/ \E p \in Procs : Publish(p)
    \/ \E p \in Procs : Deliver(p)
    \/ \E p \in Procs : Cancel(p)
    \/ \E p \in Procs : Await(p)
    \/ \E p \in Procs : Return(p)

Spec == Init /\ [][Next]_vars

\* The Go scheduler runs a goroutine whose Get(ctx) can return: the select in
\* Get has a ready case and stays ready until it is taken.
FairNext ==
    \/ nstores < FairStores /\ \E t \in StoredConfigs : Store(t)
    \/ nsends < FairSends /\ \E p \in Procs, b \in Brokers, e \in Events : SendCall(p, b, e)
    \/ \E p \in Procs : GetTopicID(p)
    \/ \E p \in Procs : RLock(p)
    \/ \E p \in Procs : GetExistingTopic(p)
    \/ \E p \in Procs : Lock(p)
    \/ \E p \in Procs : Recheck(p)
    \/ \E p \in Procs : Update(p)
    \/ \E p \in Procs : Create(p)
    \/ \E p \in Procs : Filter(p)
    \/ \E p \in Procs : Encode(p)
    \/ \E p \in Procs : Publish(p)
    \/ \E p \in Procs : Deliver(p)
    \/ \E p \in Procs : Cancel(p)
    \/ \E p \in Procs : Await(p)
    \/ \E p \in Procs : Return(p)

FairSpec == Init /\ [][FairNext]_vars /\ \A p \in Procs : WF_vars(Await(p))

\* ================================================================= claims
\* A step of sender p.
StepOf(p) == pc'[p] # pc[p]

\* Sender p is at one of the two places that call getTopicIDForBroker.
AtLookup(p) == pc[p] \in {"getTopicID", "recheck"}

\* Sender p's Send ends in this step with err, without any Publish call.
EndsWith(p, err) == pc'[p] = "done" /\ result'[p] = err /\ npub'[p] = 0

\* The broker value the current snapshot holds under the key.
KeyPresent(key) == Value.kind = "cfg" /\ key \in DOMAIN Value.Brokers
QueueOf(key) == Value.Brokers[key].DecoupleQueue

\* C1: whenever Send looks a broker key up in a stored snapshot whose broker map
\* does not hold the key, Send returns ErrNotFound and has made no Publish call;
\* and a Send that returned ErrNotFound has made none.
C1_NotFound ==
    [][\A p \in Procs :
        /\ (StepOf(p) /\ AtLookup(p) /\ Value.kind # "unset" /\ ~KeyPresent(broker[p]))
              => EndsWith(p, ErrNotFound)
        /\ (pc'[p] = "done" /\ result'[p] = ErrNotFound) => npub'[p] = 0]_vars

C1_Witness ==
    \E p \in Procs :
        /\ pc[p] = "done" /\ result[p] = ErrNotFound /\ npub[p] = 0
        /\ Value.kind = "cfg" /\ Value.Brokers # << >> /\ broker[p] \notin DOMAIN Value.Brokers

\* C2: whenever Send looks up a broker the snapshot holds with no decouple queue
\* or an empty topic id, whatever the queue's state, Send returns ErrIncomplete
\* and has made no Publish call.
C2_Incomplete ==
    [][\A p \in Procs :
        /\ (/\ StepOf(p) /\ AtLookup(p) /\ KeyPresent(broker[p])
            /\ (~QueueOf(broker[p]).present \/ QueueOf(broker[p]).Topic = ""))
              => EndsWith(p, ErrIncomplete)
        /\ (pc'[p] = "done" /\ result'[p] = ErrIncomplete) => npub'[p] = 0]_vars

C2_Witness ==
    \E p \in Procs :
        /\ pc[p] = "done" /\ result[p] = ErrIncomplete /\ npub[p] = 0
        /\ KeyPresent(broker[p]) /\ QueueOf(broker[p]).present
        /\ QueueOf(broker[p]).Topic = "" /\ QueueOf(broker[p]).State # "READY"

\* C3: whenever Send looks up a broker whose queue has a topic id and a state
\* other than READY, Send returns ErrNotReady and has made no Publish call; and
\* a lookup lets Send go on only when the queue's state is READY.
C3_NotReady ==
    [][\A p \in Procs :
        /\ (/\ StepOf(p) /\ AtLookup(p) /\ KeyPresent(broker[p])
            /\ QueueOf(broker[p]).present /\ QueueOf(broker[p]).Topic # ""
            /\ QueueOf(broker[p]).State \in {"UNKNOWN", "CREATING", "FAILED"})
              => EndsWith(p, ErrNotReady)
        /\ (StepOf(p) /\ AtLookup(p) /\ pc'[p] # "done")
              => (KeyPresent(broker[p]) /\ QueueOf(broker[p]).State = "READY")
        /\ (pc'[p] = "done" /\ result'[p] = ErrNotReady) => npub'[p] = 0]_vars

C3_Witness ==
    \E p \in Procs :
        /\ pc[p] = "done" /\ result[p] = ErrNotReady /\ npub[p] = 0
        /\ KeyPresent(broker[p]) /\ QueueOf(broker[p]).Topic # ""
        /\ QueueOf(broker[p]).State = "FAILED"

\* The errors getTopicIDForBroker classifies.
ClassifiedErrors == {ErrNotFound, ErrIncomplete, ErrNotReady}

\* Sender p's getTopicForBroker has returned a handle.
Resolved(p) ==
    \/ pc[p] \in {"filter", "encode", "publish", "await"}
    \/ pc[p] = "done" /\ result[p] \notin ClassifiedErrors \cup {Fault}

\* The handles created for a broker, in creation order.
HandlesOf(b) == { h \in 1..Len(handles) : handles[h].broker = b }

\* C4: a Send that returns ErrNotFound, ErrIncomplete or ErrNotReady has not
\* changed the topics map, created a handle or stopped one, neither in the step
\* that returns nor before (touched records every change a Send makes).
C4_NoSideEffects ==
    [][/\ (registryVars' # registryVars) => \E p \in Procs : StepOf(p) /\ touched'[p]
       /\ \A p \in Procs :
            (pc'[p] = "done" /\ result'[p] \in ClassifiedErrors)
               => (~touched'[p] /\ (StepOf(p) => registryVars' = registryVars))]_vars

C4_Witness ==
    \E p \in Procs :
        /\ pc[p] = "done" /\ result[p] \in ClassifiedErrors
        /\ viaLock[p] /\ ~touched[p]
        /\ topics[broker[p]] # 0

\* C5: while a broker has had one resolvable topic id only, at most one handle
\* exists for it, that handle is never stopped and is the cached one, and every
\* Send that resolved a handle for the broker holds exactly that handle.
C5_OneHandle ==
    \A b \in Brokers :
        Len(cfgHist[b]) <= 1 =>
            /\ Cardinality(HandlesOf(b)) <= 1
            /\ \A h \in HandlesOf(b) : handles[h].stops = 0 /\ topics[b] = h
            /\ \A p \in Procs :
                 (Resolved(p) /\ broker[p] = b) => (topic[p] # 0 /\ topic[p] = topics[b])

C5_Witness ==
    \E b \in Brokers :
        /\ Len(cfgHist[b]) = 1
        /\ \A p \in Procs : Resolved(p) /\ broker[p] = b /\ viaLock[p]
        /\ Cardinality(HandlesOf(b)) = 1
        /\ nsends >= 3

\* C6: when a broker's resolvable topic id changed once, from t1 to t2, and a
\* handle bound to t1 had been cached, then at most one handle bound to t2 is
\* ever created, the t1 handle is stopped at most once, it has been stopped
\* exactly once by the time the t2 handle exists, and every Send that saw t2
\* and resolved a handle holds the t2 handle.
C6_Drift ==
    \A b \in Brokers :
        (Len(cfgHist[b]) = 2 /\ \E h \in HandlesOf(b) : ID(h) = cfgHist[b][1]) =>
            /\ Cardinality(HandlesOf(b)) <= 2
            /\ \A h \in HandlesOf(b) : handles[h].stops <= 1
            /\ \A h1, h2 \in HandlesOf(b) :
                 (ID(h1) = cfgHist[b][1] /\ ID(h2) = cfgHist[b][2]) =>
                     /\ h1 < h2
                     /\ handles[h1].stops = 1
                     /\ handles[h2].stops = 0
                     /\ topics[b] = h2
            /\ \A p \in Procs :
                 (Resolved(p) /\ broker[p] = b /\ topicID[p] = cfgHist[b][2]) =>
                     (topic[p] = topics[b] /\ ID(topic[p]) = cfgHist[b][2])

C6_Witness ==
    \E b \in Brokers :
        /\ Len(cfgHist[b]) = 2
        /\ Cardinality(HandlesOf(b)) = 2
        /\ \A p \in Procs :
             Resolved(p) /\ broker[p] = b /\ viaLock[p] /\ topicID[p] = cfgHist[b][2]

\* The old handle is stopped and the new one not yet created.
C6_WitnessStopFirst ==
    \E b \in Brokers :
        /\ Len(cfgHist[b]) = 2
        /\ HandlesOf(b) # {}
        /\ \A h \in HandlesOf(b) : handles[h].stops = 1

\* C7: no Send takes from the map a handle that was already stopped when it was
\* read: the fast path and the check under the lock see current handles only,
\* and whenever the lock is free the map holds no stopped handle.
C7_NeverStale ==
    /\ \A p \in Procs : ~staleRead[p]
    /\ writer = 0 => \A b \in Brokers : topics[b] # 0 => ~Stopped(topics[b])

C7_Witness ==
    \E p \in Procs :
        /\ Resolved(p) /\ ~viaLock[p] /\ topic[p] # 0
        /\ \E h \in HandlesOf(broker[p]) : Stopped(h) /\ h < topic[p]

\* No target of any broker of snapshot v passes event e.
NoInterest(v, e) ==
    v.kind = "cfg" =>
        \A k \in DOMAIN v.Brokers : \A n \in DOMAIN v.Brokers[k].Targets :
            e \notin v.Brokers[k].Targets[n]

\* C8 as stated: with filtering disabled, every Send whose handle resolution
\* succeeded has issued exactly one Publish when it returns.
C8_AlwaysPublishes ==
    \A p \in Procs :
        (~enableEventFiltering /\ pc[p] = "done" /\ Resolved(p)) => npub[p] = 1

\* C8, amended: with filtering disabled, every Send whose handle resolution
\* succeeded has issued exactly one Publish when it returns, whatever the
\* targets' filters say, unless encoding the event failed; then it returns the
\* encoding error and has issued none.
C8_PublishesUnlessEncodeFails ==
    \A p \in Procs :
        (~enableEventFiltering /\ Resolved(p)) =>
            /\ pc[p] = "done" => npub[p] = (IF result[p] = ErrEncode THEN 0 ELSE 1)
            /\ pc[p] = "await" => npub[p] = 1
            /\ pc[p] \in {"filter", "encode", "publish"} => npub[p] = 0

C8_Witness ==
    \E p \in Procs :
        /\ ~enableEventFiltering
        /\ pc[p] = "done" /\ result[p] = Nil /\ npub[p] = 1
        /\ nstores = 1 /\ Value.kind = "cfg" /\ NoInterest(Value, event[p])

\* C9: with filtering enabled, a Send that reaches the interest check while no
\* target of any broker in the snapshot passes the event returns nil and has
\* issued no Publish.
C9_DropsUninteresting ==
    [][\A p \in Procs :
        (/\ StepOf(p) /\ pc[p] = "filter"
         /\ enableEventFiltering /\ NoInterest(Value, event[p]))
           => (pc'[p] = "done" /\ result'[p] = Nil /\ npub'[p] = 0)]_vars

C9_Witness ==
    \E p \in Procs :
        /\ enableEventFiltering
        /\ pc[p] = "done" /\ result[p] = Nil /\ npub[p] = 0
        /\ nstores = 1 /\ Value.kind = "cfg" /\ NoInterest(Value, event[p])
        /\ RangeAllTargets(Value) # {}

\* C10: once a snapshot was stored, Load returns, without a fault, exactly the
\* argument of the latest Store, one of the snapshots given to Store and no
\* mixture of two.
C10_LoadYieldsLastStore ==
    nstores > 0 =>
        /\ ~Load(Value).fault
        /\ Load(Value).val = lastStored
        /\ lastStored \in StoredConfigs

C10_Witness ==
    \E p \in Procs :
        /\ nstores >= 2
        /\ pc[p] = "RLock"
        /\ Len(cfgHist[broker[p]]) = 2
        /\ topicID[p] = cfgHist[broker[p]][2]
        /\ Load(Value).val = lastStored

\* C11: a Send made before any snapshot was stored completes without a fault:
\* Load yields the nil snapshot, GetBrokerByKey finds no broker and Send returns
\* ErrNotFound.
C11_NoFaultBeforeStore ==
    \A p \in Procs :
        (nstores = 0 /\ pc[p] = "done") => (result[p] # Fault /\ result[p] = ErrNotFound)

\* Sender p is inside Send.
InSend(p) == pc[p] \notin {"idle", "done"}

\* In every state: a cache entry holds a handle created for its own broker, two
\* brokers never share a handle object, and while some Send is under way and not
\* waiting for the queue service's answer, some such Send can take a step (no
\* deadlock).
C12_State ==
    /\ \A b \in Brokers : topics[b] # 0 => handles[topics[b]].broker = b
    /\ \A p \in Procs : (Resolved(p) /\ pc[p] # "done") => handles[topic[p]].broker = broker[p]
    /\ (\E p \in Procs : InSend(p) /\ pc[p] # "await")
          => \E p \in Procs : InSend(p) /\ pc[p] # "await" /\ ENABLED SendStep(p)

\* In every step of a sender: the cache entries and the handles of the brokers
\* it was not called for stay as they are, and a handle it creates is its own
\* broker's.
C12_Step ==
    \A p \in Procs :
        StepOf(p) =>
            /\ \A b \in Brokers \ {broker[p]} : topics'[b] = topics[b]
            /\ \A h \in 1..Len(handles) :
                 handles[h].broker # broker[p] => handles'[h] = handles[h]
            /\ \A h \in (Len(handles) + 1)..Len(handles') : handles'[h].broker = broker[p]

\* C12: concurrent Sends for distinct brokers never deadlock, each resolves a
\* handle of its own (distinct objects even under one topic id), and a
\* resolution never creates, replaces, stops or removes another broker's entry.
C12_IndependentBrokers == []C12_State /\ [][C12_Step]_vars

C12_Witness ==
    /\ \A p \in Procs : Resolved(p) /\ viaLock[p] /\ touched[p] /\ pc[p] # "done"
    /\ \A p, q \in Procs :
         p # q => (broker[p] # broker[q] /\ topic[p] # topic[q] /\ ID(topic[p]) = ID(topic[q]))

\* Some other sender holds the write lock and is inside updateTopicForBroker.
WriterAtWork(p) == writer \notin {0, p} /\ pc[writer] \in {"recheck", "update", "create"}

C14_OneLiveHandle ==
    writer = 0 =>
        \A b \in Brokers :
            /\ topics[b] # 0 => topics[b] \in HandlesOf(b)
            /\ \A h \in HandlesOf(b) : (h = topics[b]) <=> ~Stopped(h)
            /\ topics[b] # 0 =>
                  Cardinality({ h \in HandlesOf(b) : ~Stopped(h) }) = 1

C14_Witness ==
    /\ writer = 0
    /\ \E b \in Brokers :
         /\ Cardinality(HandlesOf(b)) >= 2
         /\ topics[b] # 0 /\ ~Stopped(topics[b])
         /\ \E h \in HandlesOf(b) : Stopped(h)

\* C15 as stated: a Send that holds a handle is never failed by another Send's
\* swap of that handle: neither its publish result nor its own result is the
\* stopped-handle error.
C15_SwapNeverFailsPublish ==
    \A p \in Procs :
        /\ future[p] # ErrTopicStopped
        /\ result[p] # ErrTopicStopped

\* C16: a Send calls Publish at most once, its wait ends in its return and never
\* in another Publish, and when the caller has not cancelled, the error it
\* returns is the publish outcome itself: nil for an acknowledged publish, the
\* transport error for a failed one.
C16_OnePublishVerbatim ==
    [][\A p \in Procs :
          /\ npub'[p] <= 1
          /\ (pc[p] = "await" /\ StepOf(p)) =>
                /\ pc'[p] = "done"
                /\ npub'[p] = 1
                /\ ~ctxDone[p] => result'[p] = future[p]
                /\ result'[p] \in {future[p], ErrCancelled}]_vars

C16_Witness ==
    \E p \in Procs : pc[p] = "done" /\ npub[p] = 1 /\ result[p] = ErrPublish

\* Sender p's Get(ctx) can return: the publish result is ready or the context is done.
CanReturn(p) == pc[p] = "await" /\ (future[p] # Pending \/ ctxDone[p])

\* C17: a Send whose context is done while its publish is still pending can
\* return, and returns the cancellation error; and a Send waiting for a publish
\* returns once the publish is acknowledged or failed or the context is done.
C17_Step ==
    \A p \in Procs :
        (pc[p] = "await" /\ StepOf(p) /\ future[p] = Pending) =>
            ctxDone[p] /\ pc'[p] = "done" /\ result'[p] = ErrCancelled

C17_HonoursCancellation ==
    /\ [][C17_Step]_vars
    /\ \A p \in Procs : CanReturn(p) ~> (pc[p] = "done")

C17_Witness ==
    \E p \in Procs : pc[p] = "await" /\ future[p] = Pending /\ ctxDone[p]

\* C18 as stated: with filtering enabled and one snapshot throughout, a Send to
\* a resolvable broker has published when it returns if and only if some target
\* of some broker in the snapshot passes the event.
C18_PublishesIffInterest ==
    \A p \in Procs :
        (enableEventFiltering /\ nstores = 1 /\ pc[p] = "done" /\ Resolved(p)) =>
            (npub[p] = 1 <=> ~NoInterest(Value, event[p]))

\* C18, amended: with filtering enabled, a Send passes the interest check if and
\* only if some target of some broker in the snapshot passes the event, the
\* addressed broker's or another's; a Send that does not pass returns nil
\* without a Publish, and one that passes publishes to the addressed broker's
\* handle unless encoding the event fails.
C18_InterestOverAllBrokers ==
    [][\A p \in Procs :
          StepOf(p) =>
            /\ (pc[p] = "filter" /\ enableEventFiltering) =>
                  /\ pc'[p] = "encode" <=> ~NoInterest(Value, event[p])
                  /\ pc'[p] # "encode" =>
                        pc'[p] = "done" /\ result'[p] = Nil /\ npub'[p] = 0
            /\ pc[p] = "encode" =>
                  \/ pc'[p] = "publish"
                  \/ pc'[p] = "done" /\ result'[p] = ErrEncode /\ npub'[p] = 0
            /\ pc[p] = "publish" =>
                  /\ pc'[p] = "await" /\ npub'[p] = 1
                  /\ handles[topic[p]].broker = broker[p]]_vars

C18_Witness ==
    \E p \in Procs :
        /\ enableEventFiltering /\ nstores = 1 /\ Value.kind = "cfg"
        /\ pc[p] = "await" /\ npub[p] = 1 /\ broker[p] = "b1"
        /\ \A n \in DOMAIN Value.Brokers["b1"].Targets :
              event[p] \notin Value.Brokers["b1"].Targets[n]
        /\ "b2" \in DOMAIN Value.Brokers
        /\ \E n \in DOMAIN Value.Brokers["b2"].Targets :
              event[p] \in Value.Brokers["b2"].Targets[n]

\* C19: the handle a Send passes to the interest check, encodes for, publishes
\* to and waits on is bound to a topic id that the addressed broker resolved to
\* (a queue with that topic, State READY) in a snapshot that was current at some
\* instant of this call: never to an id configured only before the call or only
\* for another broker.
C19_PublishesToCurrentTopic ==
    \A p \in Procs :
        pc[p] \in {"filter", "encode", "publish", "await"} =>
            /\ topic[p] # 0
            /\ ID(topic[p]) \in during[p]

C19_Witness ==
    \E p \in Procs :
        LET b == broker[p] IN
        /\ pc[p] = "await" /\ npub[p] = 1
        /\ Len(cfgHist[b]) = 2
        /\ during[p] = {cfgHist[b][2]}
        /\ ID(topic[p]) = cfgHist[b][2]
        /\ \E h \in HandlesOf(b) : ID(h) = cfgHist[b][1]
        /\ \E c \in Brokers \ {b} : topics[c] # 0 /\ ID(topics[c]) = cfgHist[b][1]

\* Sender p is outside the sections of Send that hold topicsMut.
OutsideLock(p) ==
    pc[p] \in {"idle", "getTopicID", "RLock", "Lock", "filter", "encode", "publish",
               "await", "done"}

====
